---------------------------- MODULE Spec2Model ----------------------------
(***************************************************************************)
(* QGrain: the numerical resolver subsystem.                               *)
(*                                                                         *)
(*   SpecUDM     UDMResolver.try_fit (src/QGrain/udm/_resolver.py): the    *)
(*               pretrain loop, the main loop with its NaN stop and its    *)
(*               plateau early stop, and the result that is returned.      *)
(*   SpecSSU     Resolver (src/resolvers/resolver.py): validate_data,      *)
(*               feed_data, preprocess_data and the hooks.                 *)
(*   SpecKernel  the pure functions of src/algorithms.py and               *)
(*               Resolver.get_valid_data_range, applied to bounded inputs. *)
(*                                                                         *)
(* Real numbers are fixed-point integers.  A float NaN is the value NaN,   *)
(* which every comparison of the model tests for before it compares, as    *)
(* IEEE comparisons with NaN are all false.                                *)
(***************************************************************************)
EXTENDS Integers, Sequences, FiniteSets, TLC

VARIABLES
    \* ---- UDMResolver.try_fit
    s,                          \* the UDMAlgorithmSetting of the call
    env,                        \* how the loss of this run behaves (data, learning rate)
    pc,                         \* where try_fit is
    epoch,                      \* pretrain_epoch / epoch, the loop variable
    params,                     \* udm.components.params, udm.proportions.params
    distribution_loss_series,
    component_loss_series,
    history,
    stop,                       \* how the main loop was left
    result,                     \* the UDMResult returned
    \* ---- Resolver
    real_x, y_data, start_index, end_index, x_to_fit, y_to_fit,
    hooks,                      \* the calls of on_data_invalid / on_data_fed so far
    call,                       \* the last call on the resolver and how it ended
    pre,                        \* the data fields as they were before the last call
    __distribution_type,        \* self.__distribution_type
    bound_funcs,                \* the family of get_mixed_func, single_func, mean_func, ...
    __ncomp,                    \* self.__ncomp
    by_ncomp,                   \* mixed_func, bounds, constrains, defaults, params
    initial_guess,
    fit_pc,                     \* where try_fit is
    global_x0,                  \* the x0 basinhopping was given
    niter_done, stall,          \* basinhopping: cycles run, cycles without a new minimum
    lowest,                     \* basinhopping: the lowest minimum found so far
    global_fitted_result,
    fitted_result,
    returned,                   \* what the last call returned
    \* ---- kernel functions
    k_op, k_arg, k_ret,
    \* ---- FittingResultViewer
    __fitting_results,
    retry_tasks,                \* task uuid -> index in __fitting_results
    executing,                  \* the tasks the async worker was given and has not finished
    n_tasks, n_samples,         \* the tasks and the samples created so far
    handled                     \* the last operation of the viewer and how it ended

udmVars == <<s, env, pc, epoch, params, distribution_loss_series,
             component_loss_series, history, stop, result>>
dataVars == <<real_x, y_data, start_index, end_index, x_to_fit, y_to_fit>>
confVars == <<__distribution_type, bound_funcs, __ncomp, by_ncomp, initial_guess>>
fitVars == <<fit_pc, global_x0, niter_done, stall, lowest, global_fitted_result,
             fitted_result, returned>>
ssuVars == <<real_x, y_data, start_index, end_index, x_to_fit, y_to_fit,
             hooks, call, pre, confVars, fitVars>>
kerVars == <<k_op, k_arg, k_ret>>
viewVars == <<__fitting_results, retry_tasks, executing, n_tasks, n_samples, handled>>
vars == <<udmVars, ssuVars, kerVars, viewVars>>

-----------------------------------------------------------------------------
(* Python and numpy *)

\* float("nan")
NaN == -1000000

\* None
None == [kind |-> "None"]

IsNaN(v) == v = NaN

Min(a, b) == IF a <= b THEN a ELSE b
Max(a, b) == IF a >= b THEN a ELSE b

RECURSIVE SumSeq(_)
SumSeq(q) == IF q = <<>> THEN 0 ELSE Head(q) + SumSeq(Tail(q))

\* a slice bound as Python clamps it: a negative index counts from the end
SliceIndex(i, n) == IF i < 0 THEN Max(i + n, 0) ELSE Min(i, n)

\* q[a:b], 0-based like Python
PySlice(q, a, b) ==
    LET lo == SliceIndex(a, Len(q))
        hi == SliceIndex(b, Len(q))
    IN  IF lo >= hi THEN <<>> ELSE SubSeq(q, lo + 1, hi)

\* q[a:]
PySliceFrom(q, a) == PySlice(q, a, Len(q))

AnyNaN(q) == \E i \in 1..Len(q) : IsNaN(q[i])

-----------------------------------------------------------------------------
(* UDMResolver.try_fit *)

\* the comparison windows of the early stop: [-100:-80] and [-20:]
WindowOldFrom == 100
WindowOldTo == 80
WindowNew == 20

MaxPretrain == 2
MaxMinEpochs == 2
MaxShortRun == 2
MaxThreshold == 2
MaxNanAt == 3
MaxSlope == 1

\* an iteration cap that leaves room for a plateau to be reached and detected
LongRun == 2 * WindowOldFrom

\* an iteration index no run reaches
Beyond == LongRun + WindowOldFrom + 1

\* s.pretrain_epochs, s.min_epochs, s.max_epochs; threshold is 10**(-s.precision),
\* a positive number, in the unit of the losses
Settings ==
    [pretrain_epochs : (0..MaxPretrain) \cup {WindowOldTo},
     min_epochs      : 0..MaxMinEpochs,
     max_epochs      : (0..MaxShortRun) \cup {LongRun},
     threshold       : 1..MaxThreshold]

\* The reconstruction loss of a run as a function of the number of optimizer
\* steps taken: it moves by slope per step up to step knee and is flat from
\* there on, and it is NaN at step nan_at (Beyond: at no step).
LossCourses ==
    [slope : {0}, knee : {0}, nan_at : (0..MaxNanAt) \cup {Beyond}]
    \cup [slope  : ((0 - MaxSlope)..MaxSlope) \ {0},
          knee   : {WindowNew, LongRun},
          nan_at : (0..MaxNanAt) \cup {Beyond}]

\* torch.log10(torch.mean(torch.square(X - X_hat))).item(): NaN once the
\* proportions are NaN
DistributionLoss(p) ==
    IF IsNaN(p.prop) \/ IsNaN(p.comp) \/ p.prop = env.nan_at
    THEN NaN
    ELSE env.slope * Min(p.prop, env.knee)

\* (10**s.constraint_level) * torch.mean(torch.std(components, dim=0)).item()
ComponentLoss(p) == IF IsNaN(p.comp) THEN NaN ELSE p.comp % 2

\* loss = distribution_loss + (10**s.constraint_level) * component_loss
TotalLoss(p) ==
    IF IsNaN(DistributionLoss(p)) \/ IsNaN(ComponentLoss(p))
    THEN NaN
    ELSE DistributionLoss(p) + ComponentLoss(p)

\* optimizer.step() after loss.backward(): a parameter group that requires
\* grad moves, and becomes NaN when the loss it is stepped on is NaN
StepGroup(v, loss) == IF IsNaN(loss) \/ IsNaN(v) THEN NaN ELSE v + 1

\* the pretrain step with the components left trainable
AdamStepPretrain_Unfrozen(p, loss) ==
    [comp |-> StepGroup(p.comp, loss), prop |-> StepGroup(p.prop, loss)]

AdamStepPretrain(p, loss) == [comp |-> p.comp, prop |-> StepGroup(p.prop, loss)]

AdamStepMain(p, loss) == [comp |-> StepGroup(p.comp, loss), prop |-> StepGroup(p.prop, loss)]

\* np.mean(window) - np.mean(window) < threshold, the means as fractions:
\* the mean of an empty slice is NaN, and no comparison with NaN is true
DeltaBelow(old, new, threshold) ==
    /\ old # <<>>
    /\ new # <<>>
    /\ ~AnyNaN(old)
    /\ ~AnyNaN(new)
    /\ SumSeq(old) * Len(new) - SumSeq(new) * Len(old) < threshold * Len(old) * Len(new)

\* the comparison of the early stop turned round: delta_loss > 10**(-s.precision)
EarlyStop_Reversed(series, threshold) ==
    DeltaBelow(PySliceFrom(series, 0 - WindowNew),
               PySlice(series, 0 - WindowOldFrom, 0 - WindowOldTo),
               0 - threshold)

\* the early stop with the older window reaching up to the newer one: [-100:-20]
EarlyStop_AdjacentWindows(series, threshold) ==
    DeltaBelow(PySlice(series, 0 - WindowOldFrom, 0 - WindowNew),
               PySliceFrom(series, 0 - WindowNew),
               threshold)

\* delta_loss < 10**(-s.precision)
EarlyStop(series, threshold) ==
    DeltaBelow(PySlice(series, 0 - WindowOldFrom, 0 - WindowOldTo),
               PySliceFrom(series, 0 - WindowNew),
               threshold)

\* the component parameters try_fit starts from: `parameters`, in the kernel's units
InitialComponents == 0

NoResult == [returned |-> FALSE]

InitUDM ==
    /\ s \in Settings
    /\ env \in LossCourses
    /\ pc = "pretrain"
    /\ epoch = 0
    /\ params = [comp |-> InitialComponents, prop |-> 0]
    /\ distribution_loss_series = <<>>
    /\ component_loss_series = <<>>
    /\ history = <<>>
    /\ stop = "running"
    /\ result = NoResult

IdleUDM ==
    /\ s = [pretrain_epochs |-> 0, min_epochs |-> 0, max_epochs |-> 0, threshold |-> 1]
    /\ env = [slope |-> 0, knee |-> 0, nan_at |-> Beyond]
    /\ pc = "idle"
    /\ epoch = 0
    /\ params = [comp |-> 0, prop |-> 0]
    /\ distribution_loss_series = <<>>
    /\ component_loss_series = <<>>
    /\ history = <<>>
    /\ stop = "running"
    /\ result = NoResult

\* a pretrain pass without `component_loss_series.append(0.0)`
PretrainIteration_NoZeroEntry ==
    /\ pc = "pretrain"
    /\ epoch < s.pretrain_epochs
    /\ LET loss == DistributionLoss(params)
           stepped == AdamStepPretrain(params, loss)
       IN  /\ distribution_loss_series' = Append(distribution_loss_series, loss)
           /\ component_loss_series' = component_loss_series
           /\ params' = stepped
           /\ history' = Append(history, stepped)
    /\ epoch' = epoch + 1
    /\ UNCHANGED <<s, env, pc, stop, result, ssuVars, kerVars, viewVars>>

\* a pretrain pass that computes the loss it records after optimizer.step()
PretrainIteration_LossAfterStep ==
    /\ pc = "pretrain"
    /\ epoch < s.pretrain_epochs
    /\ LET loss == DistributionLoss(params)
           stepped == AdamStepPretrain(params, loss)
       IN  /\ distribution_loss_series' =
                  Append(distribution_loss_series, DistributionLoss(stepped))
           /\ component_loss_series' = Append(component_loss_series, 0)
           /\ params' = stepped
           /\ history' = Append(history, stepped)
    /\ epoch' = epoch + 1
    /\ UNCHANGED <<s, env, pc, stop, result, ssuVars, kerVars, viewVars>>

\* one pass of `for pretrain_epoch in range(s.pretrain_epochs)`
PretrainIteration ==
    /\ pc = "pretrain"
    /\ epoch < s.pretrain_epochs
    /\ LET loss == DistributionLoss(params)
           stepped == AdamStepPretrain(params, loss)
       IN  /\ distribution_loss_series' = Append(distribution_loss_series, loss)
           /\ component_loss_series' = Append(component_loss_series, 0)
           /\ params' = stepped
           /\ history' = Append(history, stepped)
    /\ epoch' = epoch + 1
    /\ UNCHANGED <<s, env, pc, stop, result, ssuVars, kerVars, viewVars>>

\* the pretrain loop is over: the components become trainable
StartMain ==
    /\ pc = "pretrain"
    /\ epoch = s.pretrain_epochs
    /\ pc' = "main"
    /\ epoch' = 0
    /\ UNCHANGED <<s, env, params, distribution_loss_series, component_loss_series,
                   history, stop, result, ssuVars, kerVars, viewVars>>

\* the NaN check moved below the two appends: the NaN loss is recorded
MainNaN_AfterAppend ==
    /\ pc = "main"
    /\ epoch < s.max_epochs
    /\ IsNaN(TotalLoss(params))
    /\ distribution_loss_series' = Append(distribution_loss_series, DistributionLoss(params))
    /\ component_loss_series' = Append(component_loss_series, ComponentLoss(params))
    /\ pc' = "exit"
    /\ stop' = "nan"
    /\ UNCHANGED <<s, env, epoch, params, history, result, ssuVars, kerVars, viewVars>>

\* a pass of `for epoch in range(s.max_epochs)` whose loss is NaN: break
MainNaN ==
    /\ pc = "main"
    /\ epoch < s.max_epochs
    /\ IsNaN(TotalLoss(params))
    /\ pc' = "exit"
    /\ stop' = "nan"
    /\ UNCHANGED <<s, env, epoch, params, distribution_loss_series,
                   component_loss_series, history, result, ssuVars, kerVars, viewVars>>

\* a pass of the main loop without the floor `if epoch > s.min_epochs`
MainIteration_NoFloor ==
    /\ pc = "main"
    /\ epoch < s.max_epochs
    /\ ~IsNaN(TotalLoss(params))
    /\ LET stepped == AdamStepMain(params, TotalLoss(params))
           series == Append(distribution_loss_series, DistributionLoss(params))
       IN  /\ distribution_loss_series' = series
           /\ component_loss_series' = Append(component_loss_series, ComponentLoss(params))
           /\ params' = stepped
           /\ history' = Append(history, stepped)
           /\ IF EarlyStop(series, s.threshold)
              THEN /\ pc' = "exit"
                   /\ stop' = "early"
                   /\ epoch' = epoch
              ELSE /\ pc' = pc
                   /\ stop' = stop
                   /\ epoch' = epoch + 1
    /\ UNCHANGED <<s, env, result, ssuVars, kerVars, viewVars>>

\* a pass of the main loop over range(s.max_epochs + 1)
MainIteration_OneMore ==
    /\ pc = "main"
    /\ epoch <= s.max_epochs
    /\ ~IsNaN(TotalLoss(params))
    /\ LET stepped == AdamStepMain(params, TotalLoss(params))
           series == Append(distribution_loss_series, DistributionLoss(params))
       IN  /\ distribution_loss_series' = series
           /\ component_loss_series' = Append(component_loss_series, ComponentLoss(params))
           /\ params' = stepped
           /\ history' = Append(history, stepped)
           /\ IF epoch > s.min_epochs /\ EarlyStop(series, s.threshold)
              THEN /\ pc' = "exit"
                   /\ stop' = "early"
                   /\ epoch' = epoch
              ELSE /\ pc' = pc
                   /\ stop' = stop
                   /\ epoch' = epoch + 1
    /\ UNCHANGED <<s, env, result, ssuVars, kerVars, viewVars>>

\* a pass of the main loop whose loss is a number
MainIteration ==
    /\ pc = "main"
    /\ epoch < s.max_epochs
    /\ ~IsNaN(TotalLoss(params))
    /\ LET stepped == AdamStepMain(params, TotalLoss(params))
           series == Append(distribution_loss_series, DistributionLoss(params))
       IN  /\ distribution_loss_series' = series
           /\ component_loss_series' = Append(component_loss_series, ComponentLoss(params))
           /\ params' = stepped
           /\ history' = Append(history, stepped)
           /\ IF epoch > s.min_epochs /\ EarlyStop(series, s.threshold)
              THEN /\ pc' = "exit"
                   /\ stop' = "early"
                   /\ epoch' = epoch
              ELSE /\ pc' = pc
                   /\ stop' = stop
                   /\ epoch' = epoch + 1
    /\ UNCHANGED <<s, env, result, ssuVars, kerVars, viewVars>>

\* range(s.max_epochs) is exhausted
MainExhausted ==
    /\ pc = "main"
    /\ epoch = s.max_epochs
    /\ pc' = "exit"
    /\ stop' = "cap"
    /\ UNCHANGED <<s, env, epoch, params, distribution_loss_series,
                   component_loss_series, history, result, ssuVars, kerVars, viewVars>>

\* result = UDMResult(...); return result
Return ==
    /\ pc = "exit"
    /\ result' = [returned |-> TRUE,
                  distribution_loss_series |-> distribution_loss_series,
                  component_loss_series |-> component_loss_series,
                  final_params |-> params,
                  history |-> history]
    /\ pc' = "done"
    /\ UNCHANGED <<s, env, epoch, params, distribution_loss_series,
                   component_loss_series, history, stop, ssuVars, kerVars, viewVars>>

NextUDM ==
    \/ PretrainIteration
    \/ StartMain
    \/ MainNaN
    \/ MainIteration
    \/ MainExhausted
    \/ Return

-----------------------------------------------------------------------------
(* Resolver: the definitions that need no kernel function *)

\* a numpy.ndarray: its dtype, whether it has a length (ndim >= 1), its entries
Array(dtype, sized, data) ==
    [kind |-> "ndarray", dtype |-> dtype, sized |-> sized, data |-> data]

FloatArray(data) == Array("float64", TRUE, data)

\* a Python list, which is no numpy.ndarray
PyList(data) == [kind |-> "list", dtype |-> "float64", sized |-> TRUE, data |-> data]

PyIndex(i) == [kind |-> "int", v |-> i]

\* the class axis of n classes
ClassAxis(n) == [i \in 1..n |-> 10 * i]

\* what a caller may pass as x
XArgs ==
    { None,
      PyList(ClassAxis(2)),
      Array("str", TRUE, ClassAxis(1)),
      Array("float64", FALSE, ClassAxis(1)),
      FloatArray(<<NaN, 20>>) }
    \cup {FloatArray(ClassAxis(n)) : n \in 0..3}

\* what a caller may pass as y
YArgs ==
    { None,
      PyList(<<0, 1>>),
      Array("str", TRUE, <<0>>),
      Array("float64", FALSE, <<1>>),
      FloatArray(<<NaN, 1>>) }
    \cup {FloatArray(data) : data \in { <<>>, <<0>>, <<1, 1>>, <<0, 1>>, <<0, 1, 0>>,
                                        <<1, 0, 1>>, <<0, 0, 0>>, <<1, 1, 1>>,
                                        <<1, 1, 0>> }}

\* The argument pairs of a call: every x with a plain y, every y with a plain x,
\* and every pair of float arrays of one length.
PlainArgs == {None, FloatArray(ClassAxis(3)), FloatArray(<<0, 1, 0>>)}

CallArgs ==
    {args \in XArgs \X YArgs :
        \/ args[1] \in PlainArgs
        \/ args[2] \in PlainArgs
        \/ /\ args[1] # None /\ args[2] # None
           /\ args[1].kind = "ndarray" /\ args[2].kind = "ndarray"
           /\ args[1].dtype = "float64" /\ args[2].dtype = "float64"
           /\ args[1].sized /\ args[2].sized
           /\ Len(args[1].data) = Len(args[2].data)}

Raised(exception, message) == [raised |-> exception, message |-> message]

Returned == Raised("none", "")

\* len(a): TypeError for an array without a length
LenRaises(a) == ~a.sized

\* np.isnan(a): TypeError for a dtype that is not numeric
IsNaNRaises(a) == a.dtype # "float64"

\* Resolver.validate_data: what it raises (the messages without their backquotes)
validate_data(x, y) ==
    IF x = None THEN Raised("DataInvalidError", "x is None.")
    ELSE IF y = None THEN Raised("DataInvalidError", "y is None.")
    ELSE IF x.kind # "ndarray"
    THEN Raised("DataInvalidError", "Type of x is not numpy.ndarray.")
    ELSE IF y.kind # "ndarray"
    THEN Raised("DataInvalidError", "Type of y is not numpy.ndarray.")
    ELSE IF LenRaises(x) \/ LenRaises(y) THEN Raised("TypeError", "len() of unsized object")
    ELSE IF Len(x.data) # Len(y.data)
    THEN Raised("DataInvalidError", "The lengths of x and y are not equal.")
    ELSE IF IsNaNRaises(x) THEN Raised("TypeError", "ufunc 'isnan' not supported for the input types")
    ELSE IF AnyNaN(x.data) THEN Raised("DataInvalidError", "There is nan in x.")
    ELSE IF IsNaNRaises(y) THEN Raised("TypeError", "ufunc 'isnan' not supported for the input types")
    ELSE IF AnyNaN(y.data) THEN Raised("DataInvalidError", "There is nan in y.")
    ELSE Returned

\* DataInvalidError: its __init__ passes the args on to Exception.__init__, which
\* sets `args`; a Python 3 exception has no attribute `message`
DataInvalidErrorAttributes == {"args"}

\* the fields feed_data and preprocess_data assign
Fields == <<real_x, y_data, start_index, end_index, x_to_fit, y_to_fit>>


-----------------------------------------------------------------------------
(* kernel functions: src/algorithms.py, Resolver.get_valid_data_range *)

\* The float 1: a shape, a scale or a fraction v of a parameter vector is the
\* fixed-point integer v * Unit.
Unit == 2

MaxComp == 3
MaxShape == 2
MaxScale == 2
MaxLen == 4
MaxMass == 2

\* INFINITESIMAL = 1e-100, kept symbolic
INFINITESIMAL == "INFINITESIMAL"

\* ---- str: a string is the sequence of its characters

DigitChars == <<"0", "1", "2", "3", "4", "5", "6", "7", "8", "9">>

\* "{0}".format(n) for n >= 0
RECURSIVE FormatInt(_)
FormatInt(n) ==
    IF n < 10 THEN <<DigitChars[n + 1]>>
    ELSE FormatInt(n \div 10) \o <<DigitChars[(n % 10) + 1]>>

IsDigit(c) == \E d \in 1..10 : DigitChars[d] = c

DigitValue(c) == (CHOOSE d \in 1..10 : DigitChars[d] = c) - 1

IsNumeral(str) == str # <<>> /\ \A i \in 1..Len(str) : IsDigit(str[i])

\* int(str) of a numeral
RECURSIVE ParseInt(_)
ParseInt(str) ==
    IF Len(str) = 1 THEN DigitValue(str[1])
    ELSE 10 * ParseInt(SubSeq(str, 1, Len(str) - 1)) + DigitValue(str[Len(str)])

\* name.startswith(prefix)
StartsWith(name, prefix) ==
    Len(name) >= Len(prefix) /\ SubSeq(name, 1, Len(prefix)) = prefix

BETA == <<"b", "e", "t", "a">>
ETA == <<"e", "t", "a">>
F == <<"f">>

\* ---- the arguments a caller may pass as ncomp

PyInt(n) == [type |-> "int", v |-> n]

NcompArgs ==
    [type : {"int"}, v : (0 - 1)..(MaxComp + 1)]
    \cup [type : {"float"}, v : 0..2]
    \cup [type : {"bool"}, v : 0..1]
    \cup [type : {"str", "NoneType"}, v : {0}]

\* _check_ncomp without its type test: the comparison with 0 decides
_check_ncomp_Untyped(ncomp) ==
    IF ncomp.type \in {"str", "NoneType"} THEN "TypeError"
    ELSE IF ncomp.v <= 0 THEN "ValueError"
    ELSE "none"

\* what _check_ncomp raises
_check_ncomp(ncomp) ==
    IF ncomp.type # "int" THEN "TypeError"
    ELSE IF ncomp.v <= 0 THEN "ValueError"
    ELSE "none"

ShapeBounds == <<INFINITESIMAL, "None">>
FractionBounds == <<"0", "1">>

Param(name, default, location, bounds) ==
    [name |-> name, default |-> default, location |-> location, bounds |-> bounds]

\* the two appends of one pass of `for i in range(ncomp)`; a default is <<p, q>> for p/q
ShapeParams(i) ==
    << Param(BETA \o FormatInt(i + 1), <<1, 1>>, i * 2, ShapeBounds),
       Param(ETA \o FormatInt(i + 1), <<1, 1>>, i * 2 + 1, ShapeBounds) >>

\* the fraction located one place too far: "location": ncomp*2 + i + 1
FractionParam_Shifted(i, ncomp) ==
    Param(F \o FormatInt(i + 1), <<1, ncomp>>, ncomp * 2 + i + 1, FractionBounds)

FractionParam(i, ncomp) ==
    Param(F \o FormatInt(i + 1), <<1, ncomp>>, ncomp * 2 + i, FractionBounds)

RECURSIVE ShapeLoop(_, _)
ShapeLoop(i, ncomp) ==
    IF i >= ncomp THEN <<>> ELSE ShapeParams(i) \o ShapeLoop(i + 1, ncomp)

RECURSIVE FractionLoop(_, _, _)
FractionLoop(i, n, ncomp) ==
    IF i >= n THEN <<>> ELSE <<FractionParam(i, ncomp)>> \o FractionLoop(i + 1, n, ncomp)

\* _get_params with `for i in range(ncomp)` as its second loop too
_get_params_ExtraFraction(ncomp) ==
    IF ncomp.v = 1
    THEN [raised |-> "none",
          value |-> << Param(BETA, <<1, 1>>, 0, ShapeBounds), Param(ETA, <<1, 1>>, 1, ShapeBounds) >>]
    ELSE IF ncomp.v > 1
    THEN IF ncomp.type = "float"
         THEN [raised |-> "TypeError", value |-> <<>>]
         ELSE [raised |-> "none",
               value |-> ShapeLoop(0, ncomp.v) \o FractionLoop(0, ncomp.v, ncomp.v)]
    ELSE [raised |-> "ValueError", value |-> <<>>]

\* _get_params; range() of a float raises TypeError
_get_params(ncomp) ==
    IF ncomp.v = 1
    THEN [raised |-> "none",
          value |-> << Param(BETA, <<1, 1>>, 0, ShapeBounds), Param(ETA, <<1, 1>>, 1, ShapeBounds) >>]
    ELSE IF ncomp.v > 1
    THEN IF ncomp.type = "float"
         THEN [raised |-> "TypeError", value |-> <<>>]
         ELSE [raised |-> "none",
               value |-> ShapeLoop(0, ncomp.v) \o FractionLoop(0, ncomp.v - 1, ncomp.v)]
    ELSE [raised |-> "ValueError", value |-> <<>>]

\* list.sort(key=...) on <<key, element>> pairs: a stable sort, by insertion
RECURSIVE InsertPair(_, _)
InsertPair(sorted, pair) ==
    IF sorted = <<>> THEN <<pair>>
    ELSE IF pair[1] < Head(sorted)[1] THEN <<pair>> \o sorted
    ELSE <<Head(sorted)>> \o InsertPair(Tail(sorted), pair)

RECURSIVE SortPairs(_)
SortPairs(pairs) ==
    IF pairs = <<>> THEN <<>>
    ELSE InsertPair(SortPairs(SubSeq(pairs, 1, Len(pairs) - 1)), pairs[Len(pairs)])

\* the elements of the <<key, element>> pairs in the order of their keys
SortKeyed(pairs) ==
    LET sorted == SortPairs(pairs)
    IN  [i \in 1..Len(pairs) |-> sorted[i][2]]

LocationOf(param) == param.location

\* _sort_params_by_location_in_place
_sort_params_by_location_in_place(func_params) ==
    SortKeyed([i \in 1..Len(func_params) |-> <<LocationOf(func_params[i]), func_params[i]>>])

\* _get_bounds
_get_bounds(func_params) == [i \in 1..Len(func_params) |-> func_params[i].bounds]

\* _get_defaults
_get_defaults(func_params) == [i \in 1..Len(func_params) |-> func_params[i].default]

\* _get_constrains: the closure keeps ncomp
_get_constrains(ncomp) == <<[type |-> "ineq", ncomp |-> ncomp]>>

\* cons[0]['fun'](args): 1 - np.sum(args[1-ncomp:]) + INFINITESIMAL
ConstrainFun(ncomp, args) ==
    [value |-> Unit - SumSeq(PySliceFrom(args, 1 - ncomp)), plus |-> INFINITESIMAL]

\* _get_lambda_string: the parameter list of the lambda and its terms, a term
\* being (f or, for the last one, 1 - the fractions) * weibull(x, beta, eta)
WeightedTerm(i) ==
    [weight |-> <<F \o FormatInt(i + 1)>>, minus |-> <<>>,
     beta |-> BETA \o FormatInt(i + 1), eta |-> ETA \o FormatInt(i + 1)]

LastTerm(ncomp) ==
    [weight |-> <<>>, minus |-> [i \in 1..(ncomp - 1) |-> F \o FormatInt(i)],
     beta |-> BETA \o FormatInt(ncomp), eta |-> ETA \o FormatInt(ncomp)]

_get_lambda_string(ncomp, func_params) ==
    IF ncomp = 1
    THEN [parameter_list |-> << <<"x">>, BETA, ETA >>,
          terms |-> << [weight |-> <<>>, minus |-> <<>>, beta |-> BETA, eta |-> ETA] >>]
    ELSE [parameter_list |-> << <<"x">> >> \o [i \in 1..Len(func_params) |-> func_params[i].name],
          terms |-> [i \in 1..(ncomp - 1) |-> WeightedTerm(i - 1)] \o <<LastTerm(ncomp)>>]

NoLayout(raised, steps) ==
    [raised |-> raised, steps |-> steps, mixed_func |-> None, bounds |-> <<>>,
     constrains |-> <<>>, defaults |-> <<>>, params |-> <<>>]

\* get_mixed_weibull; steps: the builders that were called after the check
get_mixed_weibull(ncomp) ==
    IF _check_ncomp(ncomp) # "none" THEN NoLayout(_check_ncomp(ncomp), <<>>)
    ELSE IF _get_params(ncomp).raised # "none"
    THEN NoLayout(_get_params(ncomp).raised, <<"_get_params">>)
    ELSE LET func_params == _sort_params_by_location_in_place(_get_params(ncomp).value)
         IN  [raised |-> "none",
              steps |-> <<"_get_params", "_sort_params_by_location_in_place",
                          "_get_lambda_string", "_get_bounds", "_get_constrains",
                          "_get_defaults", "exec">>,
              mixed_func |-> _get_lambda_string(ncomp.v, func_params),
              bounds |-> _get_bounds(func_params),
              constrains |-> _get_constrains(ncomp.v),
              defaults |-> _get_defaults(func_params),
              params |-> func_params]

\* The function exec() makes of the lambda string, called with args after x.
\* Its value at x is the sum over its terms of weight * weibull(x, beta, eta):
\* it is kept as the total weight (in units of 1 / Unit) standing before each
\* weibull(x, beta, eta), which gives its value at every x.
MixedFuncValue(mixed_func, args, pairs) ==
    LET names == mixed_func.parameter_list
        terms == mixed_func.terms
        ValueOf(name) == args[(CHOOSE i \in 2..Len(names) : names[i] = name) - 1]
        WeightOf(term) ==
            IF term.weight # <<>> THEN ValueOf(term.weight[1])
            ELSE Unit - SumSeq([j \in 1..Len(term.minus) |-> ValueOf(term.minus[j])])
    IN  [pair \in pairs |->
            SumSeq([i \in 1..Len(terms) |->
                IF <<ValueOf(terms[i].beta), ValueOf(terms[i].eta)>> = pair
                THEN WeightOf(terms[i]) ELSE 0])]

\* scipy.special.gamma(1/beta + 1) in units of 1e-4, tabulated at the shapes drawn
GammaOfInversePlusOne(beta) ==
    CASE beta = Unit -> 10000
      [] beta = 2 * Unit -> 8862
      [] beta = 3 * Unit -> 8930
      [] beta = 4 * Unit -> 9064

\* weibull_mean(beta, eta) = eta*gamma(1/beta+1), in units of 1e-4 / Unit
weibull_mean(beta, eta) == eta * GammaOfInversePlusOne(beta)

\* np.log(2)**(1/beta) in units of 1e-4, tabulated at the shapes drawn
LogTwoToInverse(beta) ==
    CASE beta = Unit -> 6931
      [] beta = 2 * Unit -> 8326
      [] beta = 3 * Unit -> 8850
      [] beta = 4 * Unit -> 9124

\* weibull_median(beta, eta) = eta*(np.log(2)**(1/beta)), in units of 1e-4 / Unit
weibull_median(beta, eta) == eta * LogTwoToInverse(beta)

\* (1-1/beta)**(1/beta) in units of 1e-4, tabulated at the shapes drawn
OneMinusInverseToInverse(beta) ==
    CASE beta = Unit -> 0
      [] beta = 2 * Unit -> 7071
      [] beta = 3 * Unit -> 8736
      [] beta = 4 * Unit -> 9306

\* weibull_mode(beta, eta) = eta*(1-1/beta)**(1/beta), in units of 1e-4 / Unit
weibull_mode(beta, eta) == eta * OneMinusInverseToInverse(beta)

\* the float 1 in the unit of the statistics
StatUnit == weibull_mean(Unit, Unit)

MeanOf(element) == weibull_mean(element[1], element[2])

ScaleOf(element) == element[2]

\* the loop body without `processed[-1][2] -= fitted_params[...]`
ProcessOne_NoRemainder(processed, func_param, fitted_params) ==
    LET name == func_param.name
        value == fitted_params[func_param.location + 1]
    IN  IF StartsWith(name, BETA)
        THEN LET comp_index == ParseInt(SubSeq(name, 5, Len(name))) - 1
             IN  [processed EXCEPT ![comp_index + 1][1] = value]
        ELSE IF StartsWith(name, ETA)
        THEN LET comp_index == ParseInt(SubSeq(name, 4, Len(name))) - 1
             IN  [processed EXCEPT ![comp_index + 1][2] = value]
        ELSE LET comp_index == ParseInt(SubSeq(name, 2, Len(name))) - 1
             IN  [processed EXCEPT ![comp_index + 1][3] = value]

\* the body of `for func_param in func_params`
ProcessOne(processed, func_param, fitted_params) ==
    LET name == func_param.name
        value == fitted_params[func_param.location + 1]
    IN  IF StartsWith(name, BETA)
        THEN LET comp_index == ParseInt(SubSeq(name, 5, Len(name))) - 1
             IN  [processed EXCEPT ![comp_index + 1][1] = value]
        ELSE IF StartsWith(name, ETA)
        THEN LET comp_index == ParseInt(SubSeq(name, 4, Len(name))) - 1
             IN  [processed EXCEPT ![comp_index + 1][2] = value]
        ELSE LET comp_index == ParseInt(SubSeq(name, 2, Len(name))) - 1
                 own == [processed EXCEPT ![comp_index + 1][3] = value]
             IN  [own EXCEPT ![Len(own)][3] = @ - value]

RECURSIVE ProcessLoop(_, _, _, _)
ProcessLoop(processed, func_params, fitted_params, i) ==
    IF i > Len(func_params) THEN processed
    ELSE ProcessLoop(ProcessOne(processed, func_params[i], fitted_params),
                     func_params, fitted_params, i + 1)

\* processed.sort(key=lambda element: element[1]): by scale, not by mean
SortProcessed_ByScale(processed) ==
    SortKeyed([i \in 1..Len(processed) |-> <<ScaleOf(processed[i]), processed[i]>>])

\* processed.sort(key=lambda element: weibull_mean(beta, eta))
SortProcessed(processed) ==
    SortKeyed([i \in 1..Len(processed) |-> <<MeanOf(processed[i]), processed[i]>>])

\* process_params(ncomp, func_params, fitted_params)
process_params(ncomp, func_params, fitted_params) ==
    IF ncomp = 1 THEN << fitted_params >>
    ELSE SortProcessed(ProcessLoop([i \in 1..ncomp |-> <<None, None, Unit>>],
                                   func_params, fitted_params, 1))

\* `for i, value in enumerate(y_data): if value > 0.0: start_index = i; break`
RECURSIVE FirstPositive(_, _)
FirstPositive(y, i) ==
    IF i >= Len(y) THEN 0
    ELSE IF ~IsNaN(y[i + 1]) /\ y[i + 1] > 0 THEN i
    ELSE FirstPositive(y, i + 1)

\* `for i, value in enumerate(y_data[start_index+1:], start_index+1): if value == 0.0: ...`
RECURSIVE FirstZero(_, _)
FirstZero(y, i) ==
    IF i >= Len(y) THEN 0 - 1
    ELSE IF y[i + 1] = 0 THEN i
    ELSE FirstZero(y, i + 1)

\* the second loop started at 0: enumerate(y_data), not y_data[start_index+1:]
get_valid_data_range_FromZero(y) == <<FirstPositive(y, 0), FirstZero(y, 0)>>

\* Resolver.get_valid_data_range: <<start_index, end_index>>
get_valid_data_range(y) ==
    LET start == FirstPositive(y, 0)
    IN  <<start, FirstZero(y, start + 1)>>

RECURSIVE SeqsUpTo(_, _)
SeqsUpTo(S, n) ==
    IF n = 0 THEN {<<>>}
    ELSE LET shorter == SeqsUpTo(S, n - 1)
         IN  shorter \cup {Append(q, e) : q \in {r \in shorter : Len(r) = n - 1}, e \in S}

\* the distribution of the windowing example: start 3, end 6
ExampleDistribution == <<0, 0, 0, 2, 5, 3, 0, 0, 1, 0>>

\* the y_data the function is applied to
Distributions == SeqsUpTo(0..MaxMass, MaxLen) \cup {ExampleDistribution}

\* a fitted parameter vector in layout order: shapes and scales, then fractions
ShapeScalePairs == {<<b * Unit, e * Unit>> : b \in 1..MaxShape, e \in 1..MaxScale}

RECURSIVE ShapePart(_)
ShapePart(k) ==
    IF k = 0 THEN {<<>>}
    ELSE {q \o pair : q \in ShapePart(k - 1), pair \in ShapeScalePairs}

RECURSIVE FractionPart(_)
FractionPart(n) ==
    IF n = 0 THEN {<<>>}
    ELSE {Append(q, f) : q \in FractionPart(n - 1), f \in 0..Unit}

Vectors(k) == {a \o b : a \in ShapePart(k), b \in FractionPart(k - 1)}

\* no function has been applied yet; each behaviour applies one function once
InitKernel ==
    /\ k_op = "none"
    /\ k_arg = <<>>
    /\ k_ret = <<>>

IdleKernel == InitKernel

CallGetMixedWeibull ==
    /\ k_op = "none"
    /\ \E ncomp \in NcompArgs :
        /\ k_op' = "get_mixed_weibull"
        /\ k_arg' = ncomp
        /\ k_ret' = get_mixed_weibull(ncomp)
    /\ UNCHANGED <<udmVars, ssuVars, viewVars>>

\* the constraint function of the layout for ncomp, evaluated on a vector
CallConstrain ==
    /\ k_op = "none"
    /\ \E ncomp \in 1..MaxComp :
        \E args \in Vectors(ncomp) :
            /\ k_op' = "constrain"
            /\ k_arg' = [ncomp |-> ncomp, args |-> args]
            /\ k_ret' = ConstrainFun(get_mixed_weibull(PyInt(ncomp)).constrains[1].ncomp, args)
    /\ UNCHANGED <<udmVars, ssuVars, viewVars>>

CallProcessParams ==
    /\ k_op = "none"
    /\ \E ncomp \in 1..MaxComp :
        \E fitted_params \in Vectors(ncomp) :
            /\ k_op' = "process_params"
            /\ k_arg' = [ncomp |-> ncomp, fitted_params |-> fitted_params]
            /\ k_ret' = process_params(ncomp, get_mixed_weibull(PyInt(ncomp)).params,
                                       fitted_params)
    /\ UNCHANGED <<udmVars, ssuVars, viewVars>>

CallGetValidDataRange ==
    /\ k_op = "none"
    /\ \E y \in Distributions :
        /\ k_op' = "get_valid_data_range"
        /\ k_arg' = y
        /\ k_ret' = get_valid_data_range(y)
    /\ UNCHANGED <<udmVars, ssuVars, viewVars>>

NextKernel ==
    \/ CallGetMixedWeibull
    \/ CallConstrain
    \/ CallProcessParams
    \/ CallGetValidDataRange

-----------------------------------------------------------------------------
(* Resolver: the operations *)

\* refresh_by_ncomp: the five attributes get_mixed_func(self.ncomp) returns
refresh_by_ncomp(n) ==
    LET built == get_mixed_weibull(PyInt(n))
    IN  [mixed_func |-> built.mixed_func, bounds |-> built.bounds,
         constrains |-> built.constrains, defaults |-> built.defaults,
         params |-> built.params]

\* the enumeration DistributionType: the family that is supported, and one of
\* the families the kernel library is designed to admit
Weibull == "Weibull"
DistributionType == {Weibull, "Normal"}

\* what a caller may assign to resolver.distribution_type
DistributionTypeArgs ==
    [type : {"DistributionType"}, v : DistributionType]
    \cup {[type |-> "str", v |-> Weibull], [type |-> "NoneType", v |-> "None"]}

\* Resolver.__init__
InitSSU ==
    /\ __distribution_type = Weibull
    /\ bound_funcs = Weibull
    /\ __ncomp = 2
    /\ by_ncomp = refresh_by_ncomp(2)
    /\ initial_guess = refresh_by_ncomp(2).defaults
    /\ real_x = None
    /\ y_data = None
    /\ start_index = None
    /\ end_index = None
    /\ x_to_fit = None
    /\ y_to_fit = None
    /\ hooks = <<>>
    /\ call = [op |-> "__init__", x |-> None, y |-> None, raised |-> "none"]
    /\ pre = <<None, None, None, None, None, None>>
    /\ fit_pc = "idle"
    /\ global_x0 = None
    /\ niter_done = 0
    /\ stall = 0
    /\ lowest = None
    /\ global_fitted_result = None
    /\ fitted_result = None
    /\ returned = None

IdleSSU == InitSSU

\* Resolver.preprocess_data for the Weibull family: the four fields it assigns
preprocess_data(y) ==
    LET range == get_valid_data_range(y.data)
        start == range[1]
        end == range[2]
    IN  [start_index |-> PyIndex(start),
         end_index |-> PyIndex(end),
         x_to_fit |-> FloatArray([i \in 1..Max(end - start, 0) |-> i]),
         y_to_fit |-> FloatArray(PySlice(y.data, start, end))]

\* feed_data, validate_data raising DataInvalidError: the handler evaluates
\* e.message before it can call on_data_invalid
FeedDataInvalid(x, y) ==
    /\ validate_data(x, y).raised = "DataInvalidError"
    /\ IF "message" \in DataInvalidErrorAttributes
       THEN /\ hooks' = <<[hook |-> "on_data_invalid", x |-> x, y |-> y,
                           message |-> validate_data(x, y).message]>>
            /\ call' = [op |-> "feed_data", x |-> x, y |-> y, raised |-> "none"]
       ELSE /\ hooks' = <<>>
            /\ call' = [op |-> "feed_data", x |-> x, y |-> y, raised |-> "AttributeError"]
    /\ pre' = Fields
    /\ UNCHANGED <<real_x, y_data, start_index, end_index, x_to_fit, y_to_fit>>

\* feed_data, validate_data raising another exception: it is not caught
FeedDataRaises(x, y) ==
    /\ validate_data(x, y).raised \notin {"none", "DataInvalidError"}
    /\ hooks' = <<>>
    /\ call' = [op |-> "feed_data", x |-> x, y |-> y, raised |-> validate_data(x, y).raised]
    /\ pre' = Fields
    /\ UNCHANGED <<real_x, y_data, start_index, end_index, x_to_fit, y_to_fit>>

\* feed_data with a preprocess_data that clears the classes behind the window in
\* the array it was given: self.y_data[self.end_index:] = 0.0
FeedDataValid_ClearedInPlace(x, y) ==
    /\ validate_data(x, y).raised = "none"
    /\ real_x' = x
    /\ y_data' = FloatArray([i \in 1..Len(y.data) |->
                     IF i > SliceIndex(preprocess_data(y).end_index.v, Len(y.data))
                     THEN 0 ELSE y.data[i]])
    /\ start_index' = preprocess_data(y).start_index
    /\ end_index' = preprocess_data(y).end_index
    /\ IF __distribution_type = Weibull
       THEN /\ x_to_fit' = preprocess_data(y).x_to_fit
            /\ y_to_fit' = preprocess_data(y).y_to_fit
            /\ hooks' = <<[hook |-> "on_data_fed"]>>
            /\ call' = [op |-> "feed_data", x |-> x, y |-> y, raised |-> "none"]
       ELSE /\ UNCHANGED <<x_to_fit, y_to_fit>>
            /\ hooks' = <<>>
            /\ call' = [op |-> "feed_data", x |-> x, y |-> y,
                        raised |-> "NotImplementedError"]
    /\ pre' = Fields

\* feed_data, validate_data returning: preprocess_data assigns start_index and
\* end_index, and for another family than Weibull raises NotImplementedError
FeedDataValid(x, y) ==
    /\ validate_data(x, y).raised = "none"
    /\ real_x' = x
    /\ y_data' = y
    /\ start_index' = preprocess_data(y).start_index
    /\ end_index' = preprocess_data(y).end_index
    /\ IF __distribution_type = Weibull
       THEN /\ x_to_fit' = preprocess_data(y).x_to_fit
            /\ y_to_fit' = preprocess_data(y).y_to_fit
            /\ hooks' = <<[hook |-> "on_data_fed"]>>
            /\ call' = [op |-> "feed_data", x |-> x, y |-> y, raised |-> "none"]
       ELSE /\ UNCHANGED <<x_to_fit, y_to_fit>>
            /\ hooks' = <<>>
            /\ call' = [op |-> "feed_data", x |-> x, y |-> y,
                        raised |-> "NotImplementedError"]
    /\ pre' = Fields

\* The argument pairs tried on a resolver of the given family: all of them for
\* Weibull, the pairs of plain arguments for a family preprocess_data rejects.
ArgsUnder(distribution_type) ==
    IF distribution_type = Weibull
    THEN CallArgs
    ELSE {args \in CallArgs : args[1] \in PlainArgs /\ args[2] \in PlainArgs}

\* resolver.feed_data(x, y)
FeedData ==
    /\ fit_pc = "idle"
    /\ \E args \in ArgsUnder(__distribution_type) :
        \/ FeedDataInvalid(args[1], args[2])
        \/ FeedDataRaises(args[1], args[2])
        \/ FeedDataValid(args[1], args[2])
    /\ UNCHANGED <<confVars, fitVars, udmVars, kerVars, viewVars>>

\* Resolver.validate_data(x, y), called on its own
ValidateData ==
    /\ fit_pc = "idle"
    /\ \E args \in ArgsUnder(__distribution_type) :
        call' = [op |-> "validate_data", x |-> args[1], y |-> args[2],
                 raised |-> validate_data(args[1], args[2]).raised]
    /\ hooks' = <<>>
    /\ pre' = Fields
    /\ UNCHANGED <<real_x, y_data, start_index, end_index, x_to_fit, y_to_fit>>
    /\ UNCHANGED <<confVars, fitVars, udmVars, kerVars, viewVars>>

\* the setter with `self.refresh_by_ncomp()` left out
SetNcomp_NoRefresh ==
    /\ fit_pc = "idle"
    /\ \E value \in NcompArgs :
        /\ IF value.type # "int" \/ value.v <= 1
           THEN UNCHANGED confVars
           ELSE __ncomp' = value.v /\ UNCHANGED <<__distribution_type, bound_funcs, by_ncomp, initial_guess>>
        /\ call' = [op |-> "ncomp", x |-> value, y |-> None, raised |-> "none"]
    /\ hooks' = <<>>
    /\ pre' = Fields
    /\ UNCHANGED <<real_x, y_data, start_index, end_index, x_to_fit, y_to_fit>>
    /\ UNCHANGED <<fitVars, udmVars, kerVars, viewVars>>

\* resolver.ncomp = value
SetNcomp ==
    /\ fit_pc = "idle"
    /\ \E value \in NcompArgs :
        /\ IF value.type # "int" \/ value.v <= 1
           THEN UNCHANGED confVars
           ELSE /\ __ncomp' = value.v
                /\ by_ncomp' = refresh_by_ncomp(value.v)
                /\ initial_guess' = refresh_by_ncomp(value.v).defaults
                /\ UNCHANGED <<__distribution_type, bound_funcs>>
        /\ call' = [op |-> "ncomp", x |-> value, y |-> None, raised |-> "none"]
    /\ hooks' = <<>>
    /\ pre' = Fields
    /\ UNCHANGED <<real_x, y_data, start_index, end_index, x_to_fit, y_to_fit>>
    /\ UNCHANGED <<fitVars, udmVars, kerVars, viewVars>>

\* what refresh_by_distribution_type raises
refresh_by_distribution_type(distribution_type) ==
    IF distribution_type = Weibull THEN "none" ELSE "NotImplementedError"

\* the functions bound after refresh_by_distribution_type: the Weibull branch
\* binds the nine functions, the other branch raises before it binds any
BoundAfterRefresh(distribution_type) ==
    IF distribution_type = Weibull THEN Weibull ELSE bound_funcs

\* the setter without its test: type(value) != DistributionType
SetDistributionType_Untyped ==
    /\ fit_pc = "idle"
    /\ \E value \in DistributionTypeArgs :
        /\ __distribution_type' = value.v
        /\ bound_funcs' = BoundAfterRefresh(value.v)
        /\ call' = [op |-> "distribution_type", x |-> value, y |-> None,
                    raised |-> IF value.type = "DistributionType"
                               THEN refresh_by_distribution_type(value.v)
                               ELSE "NotImplementedError"]
    /\ hooks' = <<>>
    /\ pre' = Fields
    /\ UNCHANGED <<__ncomp, by_ncomp, initial_guess>>
    /\ UNCHANGED <<dataVars, fitVars, udmVars, kerVars, viewVars>>

\* resolver.distribution_type = value: the value is assigned before
\* refresh_by_distribution_type is called
SetDistributionType ==
    /\ fit_pc = "idle"
    /\ \E value \in DistributionTypeArgs :
        IF value.type # "DistributionType"
        THEN /\ UNCHANGED <<__distribution_type, bound_funcs>>
             /\ call' = [op |-> "distribution_type", x |-> value, y |-> None, raised |-> "none"]
        ELSE /\ __distribution_type' = value.v
             /\ bound_funcs' = BoundAfterRefresh(value.v)
             /\ call' = [op |-> "distribution_type", x |-> value, y |-> None,
                         raised |-> refresh_by_distribution_type(value.v)]
    /\ hooks' = <<>>
    /\ pre' = Fields
    /\ UNCHANGED <<__ncomp, by_ncomp, initial_guess>>
    /\ UNCHANGED <<dataVars, fitVars, udmVars, kerVars, viewVars>>

\* ---- Resolver.try_fit

MaxGlobalIter == 2
MaxSuccessIter == 1
MaxObjective == 2

\* the niter and niter_success try_fit passes to basinhopping
global_optimization_maxiter == MaxGlobalIter
global_optimization_success_iter == MaxSuccessIter

\* The parameter vectors a minimizer can end at, each known by the value the
\* closure (100 times the squared residual sum) takes on it.
Candidates == [closure : 0..MaxObjective]

\* the OptimizeResult of a stage: where it ended, where it started, its flag
OptimizeResult(x, x0, success) == [x |-> x, x0 |-> x0, success |-> success]

\* try_fit without data: `if self.x_to_fit is None or self.y_to_fit is None: return`
TryFitNoData ==
    /\ fit_pc = "idle"
    /\ x_to_fit = None \/ y_to_fit = None
    /\ returned' = None
    /\ fit_pc' = "done"
    /\ call' = [op |-> "try_fit", x |-> None, y |-> None, raised |-> "none"]
    /\ hooks' = <<>>
    /\ pre' = Fields
    /\ UNCHANGED <<global_x0, niter_done, stall, lowest, global_fitted_result, fitted_result>>
    /\ UNCHANGED <<dataVars, confVars, udmVars, kerVars, viewVars>>

\* a - b of two one-dimensional arrays: ValueError when the shapes (m,) and (n,)
\* cannot be broadcast together
BroadcastRaises(a, b) == Len(a) # Len(b) /\ Len(a) # 1 /\ Len(b) # 1

\* closure(args): self.mixed_func(self.x_to_fit, *args) has the shape of x_to_fit,
\* and get_squared_sum_of_residual_errors subtracts self.y_to_fit from it
ClosureRaises == BroadcastRaises(x_to_fit.data, y_to_fit.data)

\* try_fit with data the closure cannot be evaluated on: the ValueError of the
\* first evaluation, inside basinhopping, leaves try_fit
TryFitRaises ==
    /\ fit_pc = "idle"
    /\ x_to_fit # None /\ y_to_fit # None
    /\ ClosureRaises
    /\ global_x0' = initial_guess
    /\ returned' = None
    /\ fit_pc' = "done"
    /\ call' = [op |-> "try_fit", x |-> None, y |-> None, raised |-> "ValueError"]
    /\ hooks' = <<>>
    /\ pre' = Fields
    /\ UNCHANGED <<niter_done, stall, lowest, global_fitted_result, fitted_result>>
    /\ UNCHANGED <<dataVars, confVars, udmVars, kerVars, viewVars>>

\* try_fit with data, up to the first local minimization of basinhopping, which
\* starts at x0 = self.initial_guess
TryFitStart ==
    /\ fit_pc = "idle"
    /\ x_to_fit # None /\ y_to_fit # None
    /\ ~ClosureRaises
    /\ global_x0' = initial_guess
    /\ \E x \in Candidates : lowest' = x
    /\ niter_done' = 0
    /\ stall' = 0
    /\ fit_pc' = "global"
    /\ call' = [op |-> "try_fit", x |-> None, y |-> None, raised |-> "none"]
    /\ hooks' = <<>>
    /\ pre' = Fields
    /\ UNCHANGED <<global_fitted_result, fitted_result, returned>>
    /\ UNCHANGED <<dataVars, confVars, udmVars, kerVars, viewVars>>

\* basinhopping has run niter cycles, or more than niter_success cycles in a row
\* found no new global minimum
GlobalStageOver ==
    \/ niter_done >= global_optimization_maxiter
    \/ stall > global_optimization_success_iter

\* one cycle of basinhopping: a step, a local minimization, the lowest kept
GlobalCycle ==
    /\ fit_pc = "global"
    /\ ~GlobalStageOver
    /\ \E x \in Candidates :
        IF x.closure < lowest.closure
        THEN lowest' = x /\ stall' = 0
        ELSE lowest' = lowest /\ stall' = stall + 1
    /\ niter_done' = niter_done + 1
    /\ UNCHANGED <<fit_pc, global_x0, global_fitted_result, fitted_result, returned>>
    /\ UNCHANGED <<hooks, call, pre, dataVars, confVars, udmVars, kerVars, viewVars>>

\* basinhopping returns: x is the lowest minimum, with whatever flag
GlobalReturn ==
    /\ fit_pc = "global"
    /\ GlobalStageOver
    /\ \E success \in BOOLEAN :
        global_fitted_result' = OptimizeResult(lowest, global_x0, success)
    /\ fit_pc' = "polish"
    /\ UNCHANGED <<global_x0, niter_done, stall, lowest, fitted_result, returned>>
    /\ UNCHANGED <<hooks, call, pre, dataVars, confVars, udmVars, kerVars, viewVars>>

\* minimize(closure, x0=global_fitted_result.x, ...) and `return fitted_result`
Polish ==
    /\ fit_pc = "polish"
    /\ \E x \in Candidates, success \in BOOLEAN :
        /\ fitted_result' = OptimizeResult(x, global_fitted_result.x, success)
        /\ returned' = OptimizeResult(x, global_fitted_result.x, success)
    /\ fit_pc' = "done"
    /\ UNCHANGED <<global_x0, niter_done, stall, lowest, global_fitted_result>>
    /\ UNCHANGED <<hooks, call, pre, dataVars, confVars, udmVars, kerVars, viewVars>>

\* ---- Resolver.get_fitted_data

\* the fitted vectors get_fitted_data is given: the first component free, the
\* other components alike, the fractions alike
FittedVectors(k) ==
    { [i \in 1..(3 * k - 1) |->
          IF i <= 2 THEN a[i] ELSE IF i <= 2 * k THEN b[2 - (i % 2)] ELSE f]
      : a \in ShapeScalePairs, b \in {<<Unit, Unit>>, <<2 * Unit, 2 * Unit>>}, f \in 0..1 }

\* interp1d(x_to_fit, partial_real_x) needs that many entries: 1 or 2 with the
\* version of scipy
InterpMinEntries == {1, 2}

\* x_new is outside [x[0], x[-1]] = [1, len(x_to_fit)]: x_to_real raises ValueError
OutOfBounds(x_new, len) == x_new < StatUnit \/ x_new > len * StatUnit

\* x_to_real(x_new) for x_new inside the bounds: linear between the two classes
\* around it, in the unit of the statistics
x_to_real(x_new, partial_real_x) ==
    LET lo == x_new \div StatUnit
        rest == x_new % StatUnit
    IN  IF rest = 0 THEN partial_real_x[lo] * StatUnit
        ELSE partial_real_x[lo] * StatUnit
             + rest * (partial_real_x[lo + 1] - partial_real_x[lo])

\* the try block of one component: a ValueError of any of the three calls of
\* x_to_real sets all three values to np.nan
MeanMedianMode(beta, eta, partial_real_x) ==
    LET len == Len(partial_real_x)
    IN  IF \/ OutOfBounds(weibull_mean(beta, eta), len)
           \/ OutOfBounds(weibull_median(beta, eta), len)
           \/ OutOfBounds(weibull_mode(beta, eta), len)
        THEN [mean |-> NaN, median |-> NaN, mode |-> NaN]
        ELSE [mean |-> x_to_real(weibull_mean(beta, eta), partial_real_x),
              median |-> x_to_real(weibull_median(beta, eta), partial_real_x),
              mode |-> x_to_real(weibull_mode(beta, eta), partial_real_x)]

\* the entry of `statistic` for component i of processed_params
StatisticOf(i, element, partial_real_x) ==
    LET values == MeanMedianMode(element[1], element[2], partial_real_x)
    IN  [name |-> <<"C">> \o FormatInt(i), beta |-> element[1], eta |-> element[2],
         x_offset |-> start_index.v + 1, fraction |-> element[3],
         mean |-> values.mean, median |-> values.median, mode |-> values.mode]

\* process_params(ncomp, params, fitted_params, distribution_type): the family
\* it cannot decode fails with a NotImplemented error
ProcessParamsRaises(distribution_type) ==
    IF distribution_type = Weibull THEN "none" ELSE "NotImplementedError"

\* get_fitted_data(fitted_params): what it raises, and the statistic of the
\* FittedData it returns
get_fitted_data(fitted_params, min_entries) ==
    IF real_x = None \/ x_to_fit = None
    THEN [raised |-> "TypeError", statistic |-> <<>>]
    ELSE IF ProcessParamsRaises(__distribution_type) # "none"
    THEN [raised |-> ProcessParamsRaises(__distribution_type), statistic |-> <<>>]
    ELSE LET partial_real_x == PySlice(real_x.data, start_index.v, end_index.v)
             processed_params == process_params(__ncomp, by_ncomp.params, fitted_params)
         IN  IF \/ Len(x_to_fit.data) # Len(partial_real_x)
                \/ Len(x_to_fit.data) < min_entries
             THEN [raised |-> "ValueError", statistic |-> <<>>]
             ELSE [raised |-> "none",
                   statistic |-> [i \in 1..Len(processed_params) |->
                                     StatisticOf(i, processed_params[i], partial_real_x)]]

\* resolver.get_fitted_data(fitted_params); it assigns no attribute, and a
\* behaviour ends with it as it ends with try_fit
GetFittedData ==
    /\ fit_pc = "idle"
    /\ \E fitted_params \in FittedVectors(__ncomp), min_entries \in InterpMinEntries :
        LET fitted_data == get_fitted_data(fitted_params, min_entries)
        IN  /\ returned' = fitted_data.statistic
            /\ call' = [op |-> "get_fitted_data", x |-> fitted_params, y |-> None,
                        raised |-> fitted_data.raised]
    /\ fit_pc' = "done"
    /\ hooks' = <<>>
    /\ pre' = Fields
    /\ UNCHANGED <<global_x0, niter_done, stall, lowest, global_fitted_result, fitted_result>>
    /\ UNCHANGED <<dataVars, confVars, udmVars, kerVars, viewVars>>

NextSSU ==
    \/ FeedData
    \/ ValidateData
    \/ SetNcomp
    \/ SetDistributionType
    \/ TryFitNoData
    \/ TryFitRaises
    \/ TryFitStart
    \/ GlobalCycle
    \/ GlobalReturn
    \/ Polish
    \/ GetFittedData

-----------------------------------------------------------------------------
(* FittingResultViewer: the result list and the retry of fittings *)

MaxSamples == 3
MaxTasks == 2

\* a FittingResult of the list: its sample, and the uuid of the retry task that
\* made it (0 for a result that came from elsewhere)
FittingResult(sample, task) == [sample |-> sample, task |-> task]

\* a FittingTask: uuid.uuid4() at construction, and the sample to fit
FittingTask(uuid, sample) == [uuid |-> uuid, sample |-> sample]

EmptyDict == [uuid \in {} |-> 0]

\* d[key] = value
SetItem(d, key, value) ==
    [k \in DOMAIN d \cup {key} |-> IF k = key THEN value ELSE d[k]]

Handled(op, raised, sample, replaced) ==
    [op |-> op, raised |-> raised, sample |-> sample, replaced |-> replaced]

\* FittingResultViewer.__init__
InitViewer ==
    /\ __fitting_results = <<>>
    /\ retry_tasks = EmptyDict
    /\ executing = {}
    /\ n_tasks = 0
    /\ n_samples = 0
    /\ handled = Handled("__init__", "none", 0, 0)

IdleViewer == InitViewer

\* viewer.add_result(result), the result of a sample not seen before
AddResult ==
    /\ n_samples < MaxSamples
    /\ __fitting_results' = Append(__fitting_results, FittingResult(n_samples + 1, 0))
    /\ n_samples' = n_samples + 1
    /\ handled' = Handled("add_result", "none", 0, 0)
    /\ UNCHANGED <<retry_tasks, executing, n_tasks>>
    /\ UNCHANGED <<udmVars, ssuVars, kerVars>>

\* viewer.add_results(results) with two results
AddResults ==
    /\ n_samples + 2 <= MaxSamples
    /\ __fitting_results' = __fitting_results \o <<FittingResult(n_samples + 1, 0),
                                                   FittingResult(n_samples + 2, 0)>>
    /\ n_samples' = n_samples + 2
    /\ handled' = Handled("add_results", "none", 0, 0)
    /\ UNCHANGED <<retry_tasks, executing, n_tasks>>
    /\ UNCHANGED <<udmVars, ssuVars, kerVars>>

\* list.pop(i), i a 0-based index
Pop(list, i) == PySlice(list, 0, i) \o PySliceFrom(list, i + 1)

SetMax(S) == CHOOSE i \in S : \A j \in S : j <= i
SetMin(S) == CHOOSE i \in S : \A j \in S : i <= j

\* for i in reversed(indexes): self.__fitting_results.pop(i)
RECURSIVE PopReversed(_, _)
PopReversed(list, indexes) ==
    IF indexes = {} THEN list
    ELSE PopReversed(Pop(list, SetMax(indexes)), indexes \ {SetMax(indexes)})

\* the index lists the viewer passes on: selections and outlier_indexes are
\* ascending indexes of entries of the list
IndexLists == (SUBSET (0..(Len(__fitting_results) - 1))) \ {{}}

\* viewer.remove_results(indexes)
RemoveResults ==
    /\ \E indexes \in IndexLists :
        __fitting_results' = PopReversed(__fitting_results, indexes)
    /\ handled' = Handled("remove_results", "none", 0, 0)
    /\ UNCHANGED <<retry_tasks, executing, n_tasks, n_samples>>
    /\ UNCHANGED <<udmVars, ssuVars, kerVars>>

\* self.__fitting_results[index-5: index] + self.__fitting_results[index+1: index+6]
nearby_results(index) ==
    PySlice(__fitting_results, index - 5, index)
        \o PySlice(__fitting_results, index + 1, index + 6)

\* async_worker.execute_task(task): the task runs in the background
execute_task(tasks, task) == tasks \cup {task}

\* the loop of retry_results over the indexes left, from the state st of
\* retry_tasks, the worker's tasks and the uuid count; marked: a result is
\* marked as reference, so that query_reference answers. find_similar asserts
\* that it has results to compare with.
RECURSIVE RetryLoop(_, _, _)
RetryLoop(indexes, marked, st) ==
    IF indexes = {} THEN st
    ELSE LET index == SetMin(indexes)
             task == FittingTask(st.n_tasks + 1, __fitting_results[index + 1].sample)
         IN  IF ~marked /\ nearby_results(index) = <<>>
             THEN [st EXCEPT !.raised = "AssertionError"]
             ELSE RetryLoop(indexes \ {index}, marked,
                            [retry_tasks |-> SetItem(st.retry_tasks, task.uuid, index),
                             executing |-> execute_task(st.executing, task),
                             n_tasks |-> task.uuid,
                             raised |-> "none"])

\* viewer.retry_results(indexes, results), results the entries at indexes
RetryResults ==
    /\ \E indexes \in IndexLists, marked \in BOOLEAN :
        /\ n_tasks + Cardinality(indexes) <= MaxTasks
        /\ LET st == RetryLoop(indexes, marked,
                               [retry_tasks |-> EmptyDict, executing |-> executing,
                                n_tasks |-> n_tasks, raised |-> "none"])
           IN  /\ retry_tasks' = st.retry_tasks
               /\ executing' = st.executing
               /\ n_tasks' = st.n_tasks
               /\ handled' = Handled("retry_results", st.raised, 0, 0)
    /\ UNCHANGED <<__fitting_results, n_samples>>
    /\ UNCHANGED <<udmVars, ssuVars, kerVars>>

\* what on_fitting_succeeded raises for the result of task
SucceededRaises(task) ==
    IF task.uuid \notin DOMAIN retry_tasks THEN "KeyError"
    ELSE IF retry_tasks[task.uuid] >= Len(__fitting_results) THEN "IndexError"
    ELSE "none"

\* the signal task_succeeded of a task of the worker, handled by
\* on_fitting_succeeded(result) with result.task the task
OnFittingSucceeded ==
    /\ \E task \in executing :
        /\ executing' = executing \ {task}
        /\ IF SucceededRaises(task) = "none"
           THEN LET result_replace_index == retry_tasks[task.uuid]
                IN  /\ __fitting_results' =
                           [__fitting_results EXCEPT ![result_replace_index + 1] =
                               FittingResult(task.sample, task.uuid)]
                    /\ handled' = Handled("on_fitting_succeeded", "none", task.sample,
                                          __fitting_results[result_replace_index + 1].sample)
           ELSE /\ UNCHANGED __fitting_results
                /\ handled' = Handled("on_fitting_succeeded", SucceededRaises(task),
                                      task.sample, 0)
    /\ UNCHANGED <<retry_tasks, n_tasks, n_samples>>
    /\ UNCHANGED <<udmVars, ssuVars, kerVars>>

\* the signal task_failed of a task of the worker: on_fitting_failed(task) passes
OnFittingFailed ==
    /\ \E task \in executing :
        /\ executing' = executing \ {task}
        /\ handled' = Handled("on_fitting_failed", "none", task.sample, 0)
    /\ UNCHANGED <<__fitting_results, retry_tasks, n_tasks, n_samples>>
    /\ UNCHANGED <<udmVars, ssuVars, kerVars>>

NextViewer ==
    \/ AddResult
    \/ AddResults
    \/ RemoveResults
    \/ RetryResults
    \/ OnFittingSucceeded
    \/ OnFittingFailed

-----------------------------------------------------------------------------
(* specifications *)

StartUDM == InitUDM /\ IdleSSU /\ IdleKernel /\ IdleViewer

SpecUDM == StartUDM /\ [][NextUDM]_vars

\* try_fit is one sequential call: the statement it is at is executed
FairUDM == StartUDM /\ [][NextUDM]_vars /\ WF_vars(NextUDM)

StartKernel == IdleUDM /\ IdleSSU /\ InitKernel /\ IdleViewer

SpecKernel == StartKernel /\ [][NextKernel]_vars

StartSSU == IdleUDM /\ InitSSU /\ IdleKernel /\ IdleViewer

SpecSSU == StartSSU /\ [][NextSSU]_vars

StartViewer == IdleUDM /\ IdleSSU /\ IdleKernel /\ InitViewer

SpecViewer == StartViewer /\ [][NextViewer]_vars

-----------------------------------------------------------------------------
(* UDMResolver.try_fit: properties *)

\* the main-phase iterations that ran to their end, appends included
MainRecorded == IF stop = "early" THEN epoch + 1 ELSE epoch

\* every entry is the same number
ConstantSeries(q) == ~AnyNaN(q) /\ \A i, j \in 1..Len(q) : q[i] = q[j]

\* the 0-based index of the iteration whose loss was NaN first: a NaN recorded
\* by the pretrain loop, or else the main-phase iteration that broke the loop
FirstNaN(q) ==
    IF AnyNaN(q)
    THEN (CHOOSE i \in 1..Len(q) : IsNaN(q[i]) /\ \A j \in 1..(i - 1) : ~IsNaN(q[j])) - 1
    ELSE Len(q)

\* C1: in the returned result the history, the distribution-loss series and the
\* component-loss series have one length, pretrain_epochs plus the main-phase
\* iterations recorded, however the run ended (cap, early stop, NaN).
C1_HistoryLength ==
    result.returned =>
        /\ Len(result.history) = Len(result.distribution_loss_series)
        /\ Len(result.history) = Len(result.component_loss_series)
        /\ Len(result.history) = s.pretrain_epochs + MainRecorded

C1_Witness ==
    /\ result.returned
    /\ stop = "nan"
    /\ s.pretrain_epochs > 0
    /\ MainRecorded > 0
    /\ Len(result.history) = s.pretrain_epochs + MainRecorded

\* C2: when the loss first is NaN at the iteration with overall 0-based index i,
\* no later iteration runs and the result has exactly i history entries and
\* exactly i loss entries, in the pretrain phase as in the main phase.
C2_NaNStopsAtOnce ==
    (result.returned /\ (stop = "nan" \/ AnyNaN(result.distribution_loss_series))) =>
        /\ Len(result.history) = FirstNaN(result.distribution_loss_series)
        /\ Len(result.distribution_loss_series) = FirstNaN(result.distribution_loss_series)
        /\ Len(result.component_loss_series) = FirstNaN(result.distribution_loss_series)

\* C3: when the recorded reconstruction loss is the same at every iteration and
\* max_epochs exceeds min_epochs + 100, the main phase ends by the early stop
\* after at most min_epochs + 100 main-phase iterations.
C3_ConstantLossStops ==
    ( /\ result.returned
      /\ stop # "nan"
      /\ ConstantSeries(result.distribution_loss_series)
      /\ s.max_epochs > s.min_epochs + WindowOldFrom ) =>
        /\ stop = "early"
        /\ MainRecorded <= s.min_epochs + WindowOldFrom

C3_Witness ==
    /\ result.returned
    /\ stop = "early"
    /\ ConstantSeries(result.distribution_loss_series)
    /\ s.max_epochs > s.min_epochs + WindowOldFrom
    /\ s.pretrain_epochs = 0
    /\ MainRecorded = WindowOldTo + 1

\* C15: exactly pretrain_epochs pretrain iterations run, all of them before the
\* first main-phase iteration, and they leave the component parameters alone:
\* the component part of every pretrain snapshot of the history is the initial
\* one, and before the main phase starts the components are the initial ones.
C15_PretrainFrozen ==
    /\ pc = "pretrain" =>
          /\ Len(history) = epoch
          /\ epoch <= s.pretrain_epochs
          /\ params.comp = InitialComponents
          /\ \A i \in 1..Len(component_loss_series) : component_loss_series[i] = 0
    /\ pc \in {"main", "exit", "done"} =>
          /\ Len(history) = s.pretrain_epochs + MainRecorded
          /\ MainRecorded = 0 => params.comp = InitialComponents
    /\ \A i \in 1..Len(history) :
          i <= s.pretrain_epochs => history[i].comp = InitialComponents

\* two pretrain iterations that moved the proportions only, then a main-phase
\* iteration that moved the components
C15_Witness ==
    /\ result.returned
    /\ s.pretrain_epochs = 2
    /\ MainRecorded > 0
    /\ result.history[1].comp = InitialComponents
    /\ result.history[2].comp = InitialComponents
    /\ result.history[1].prop # result.history[2].prop
    /\ result.history[3].comp # InitialComponents

\* the parameters the iteration that made history entry i started from
ParamsBefore(h, i) ==
    IF i = 1 THEN [comp |-> InitialComponents, prop |-> 0] ELSE h[i - 1]

\* C16: in the result the first pretrain_epochs entries of the component-loss
\* series are exactly 0.0, one for each pretrain iteration, and every later
\* entry is the component loss of a main-phase iteration, one for each of them.
C16_PretrainLossZero ==
    result.returned =>
        LET series == result.component_loss_series
        IN  /\ Len(series) = s.pretrain_epochs + MainRecorded
            /\ \A i \in 1..Len(series) :
                  /\ i <= s.pretrain_epochs => series[i] = 0
                  /\ i > s.pretrain_epochs =>
                        series[i] = ComponentLoss(ParamsBefore(result.history, i))

C16_Witness ==
    /\ result.returned
    /\ s.pretrain_epochs = 2
    /\ MainRecorded >= 2
    /\ result.component_loss_series[1] = 0
    /\ result.component_loss_series[2] = 0
    /\ result.component_loss_series[4] # 0

\* C17: the plateau early stop never ends the training before the floor: when
\* the main loop has been left by the early stop, more than min_epochs
\* main-phase iterations have been run and recorded, and the loop variable of
\* the pass that stopped is above min_epochs.
C17_FloorBeforeEarlyStop ==
    stop = "early" =>
        /\ epoch > s.min_epochs
        /\ Len(history) - s.pretrain_epochs > s.min_epochs
        /\ Len(distribution_loss_series) - s.pretrain_epochs > s.min_epochs
        /\ Len(component_loss_series) - s.pretrain_epochs > s.min_epochs

\* the early stop at the first pass the floor allows: the pretrain entries fill
\* the older window
C17_Witness ==
    /\ stop = "early"
    /\ s.min_epochs = MaxMinEpochs
    /\ epoch = s.min_epochs + 1
    /\ Len(history) - s.pretrain_epochs = s.min_epochs + 2

\* C21: try_fit always returns a result, after exactly pretrain_epochs pretrain
\* iterations and at most max_epochs main-phase iterations, and at no moment
\* more than pretrain_epochs + max_epochs iterations are recorded.
C21_ReturnsWithinCap ==
    /\ <>(pc = "done" /\ result.returned)
    /\ [](Len(history) <= s.pretrain_epochs + s.max_epochs)
    /\ [](pc \in {"main", "exit", "done"} =>
            /\ Len(history) - MainRecorded = s.pretrain_epochs
            /\ MainRecorded <= s.max_epochs)

\* a run that used every iteration it was allowed
C21_Witness ==
    /\ result.returned
    /\ stop = "cap"
    /\ s.pretrain_epochs > 0
    /\ s.max_epochs = LongRun
    /\ Len(result.history) = s.pretrain_epochs + s.max_epochs

\* C25: when an iteration was recorded, the final parameters of the result are
\* the last history snapshot, however the run ended; and when a NaN loss stopped
\* the training, this snapshot was made by an iteration whose loss was a number,
\* so that it holds no NaN.
C25_FinalIsLastValidSnapshot ==
    (result.returned /\ Len(result.history) >= 1) =>
        LET last == Len(result.history)
        IN  /\ result.final_params = result.history[last]
            /\ stop = "nan" =>
                  /\ ~IsNaN(result.distribution_loss_series[last])
                  /\ ~IsNaN(result.final_params.prop)
                  /\ ~IsNaN(result.final_params.comp)

\* the entries of q at the 1-based positions from..to
Entries(q, from, to) == [i \in 1..(to - from + 1) |-> q[from + i - 1]]

\* mean(older window) - mean(last 20 entries) < threshold for a series of more
\* than 80 entries: the older window is what lies between the 100th and the
\* 80th entry from the end, the means are compared as fractions
PlateauOrWorse(q, threshold) ==
    LET n == Len(q)
        older == Entries(q, Max(n - WindowOldFrom, 0) + 1, n - WindowOldTo)
        newer == Entries(q, n - WindowNew + 1, n)
    IN  SumSeq(older) * WindowNew - SumSeq(newer) * Len(older)
            < threshold * Len(older) * WindowNew

\* C28: the early stop never ends the training while the loss series has 80 or
\* fewer entries; and a checked pass (epoch > min_epochs) that leaves 81 entries
\* or more stops the training exactly when mean(older window) - mean(last 20)
\* is below the threshold, a loss that got worse included.
C28_EarlyStopNeedsOlderWindow ==
    LET series == distribution_loss_series
    IN  /\ stop = "early" =>
              /\ Len(series) > WindowOldTo
              /\ PlateauOrWorse(series, s.threshold)
        /\ ( /\ pc = "main"
             /\ epoch - 1 > s.min_epochs
             /\ Len(series) > WindowOldTo ) => ~PlateauOrWorse(series, s.threshold)

\* a loss that rises from step to step, stopped at the first pass that has an
\* older window
C28_Witness ==
    /\ stop = "early"
    /\ env.slope > 0
    /\ Len(distribution_loss_series) = WindowOldTo + 1
    /\ distribution_loss_series[WindowOldTo + 1] > distribution_loss_series[1]

\* the snapshot the optimizer step of the iteration of history entry i leaves
StepFrom(before, i) ==
    IF i <= s.pretrain_epochs
    THEN AdamStepPretrain(before, DistributionLoss(before))
    ELSE AdamStepMain(before, TotalLoss(before))

\* C29: for every recorded iteration the loss entries are those of the
\* parameters before the optimizer step of the iteration (the initial parameters,
\* or the snapshot before), and the snapshot is the parameters after the step;
\* the series are as long as the history, so no loss of the last snapshot is
\* recorded.
C29_LossOfParametersBeforeStep ==
    /\ Len(distribution_loss_series) = Len(history)
    /\ Len(component_loss_series) = Len(history)
    /\ \A i \in 1..Len(history) :
          LET before == ParamsBefore(history, i)
          IN  /\ distribution_loss_series[i] = DistributionLoss(before)
              /\ i > s.pretrain_epochs => component_loss_series[i] = ComponentLoss(before)
              /\ history[i] = StepFrom(before, i)

\* a falling loss recorded in both phases: the first entry is the loss of the
\* initial parameters, the last snapshot has a loss that is in no series
C29_Witness ==
    /\ result.returned
    /\ s.pretrain_epochs = 2
    /\ Len(result.history) >= 4
    /\ env.slope < 0
    /\ result.distribution_loss_series[1] = 0
    /\ result.distribution_loss_series[2] # result.distribution_loss_series[1]
    /\ result.distribution_loss_series[4] # result.distribution_loss_series[3]
    /\ DistributionLoss(result.history[4]) # result.distribution_loss_series[4]

-----------------------------------------------------------------------------
(* kernel functions: properties *)

\* a positive entry with a zero somewhere after it
PositiveThenZero(y) == \E i, j \in 1..Len(y) : i < j /\ y[i] > 0 /\ y[j] = 0

\* the 0-based index of the first strictly positive entry
IndexOfFirstPositive(y) ==
    (CHOOSE i \in 1..Len(y) : y[i] > 0 /\ \A j \in 1..(i - 1) : ~(y[j] > 0)) - 1

\* the 0-based index of the first zero at a position after index start
IndexOfFirstZeroAfter(y, start) ==
    (CHOOSE i \in (start + 2)..Len(y) : y[i] = 0 /\ \A j \in (start + 2)..(i - 1) : y[j] # 0) - 1

\* C4: for a non-negative distribution with a positive entry followed later by a
\* zero, get_valid_data_range returns the index of the first strictly positive
\* entry and the index of the first zero after it, and the entries after that
\* zero never change the pair returned.
C4_ValidRange ==
    (k_op = "get_valid_data_range" /\ PositiveThenZero(k_arg)) =>
        /\ k_ret[1] = IndexOfFirstPositive(k_arg)
        /\ k_ret[2] = IndexOfFirstZeroAfter(k_arg, k_ret[1])
        /\ \A other \in Distributions :
              ( /\ Len(other) > k_ret[2]
                /\ SubSeq(other, 1, k_ret[2] + 1) = SubSeq(k_arg, 1, k_ret[2] + 1) )
              => get_valid_data_range(other) = k_ret

C4_Witness ==
    /\ k_op = "get_valid_data_range"
    /\ k_arg = ExampleDistribution
    /\ k_ret = <<3, 6>>

\* C5: for every component count k > 1 and every fitted vector, the list
\* process_params returns is in non-decreasing order of the component mean,
\* whatever the order of the components in the vector.
C5_SortedByMean ==
    (k_op = "process_params" /\ k_arg.ncomp > 1) =>
        /\ Len(k_ret) = k_arg.ncomp
        /\ \A i \in 1..(Len(k_ret) - 1) :
              weibull_mean(k_ret[i][1], k_ret[i][2])
                  <= weibull_mean(k_ret[i + 1][1], k_ret[i + 1][2])

\* a vector whose first component has the largest mean of three
C5_Witness ==
    /\ k_op = "process_params"
    /\ k_arg.ncomp = 3
    /\ weibull_mean(k_arg.fitted_params[1], k_arg.fitted_params[2])
         > weibull_mean(k_arg.fitted_params[3], k_arg.fitted_params[4])
    /\ weibull_mean(k_arg.fitted_params[3], k_arg.fitted_params[4])
         > weibull_mean(k_arg.fitted_params[5], k_arg.fitted_params[6])
    /\ k_ret[3][1] = k_arg.fitted_params[1]
    /\ k_ret[3][2] = k_arg.fitted_params[2]

ShapeOrScaleAt(layout, i) ==
    StartsWith(layout.params[i].name, BETA) \/ StartsWith(layout.params[i].name, ETA)

FractionAt(layout, i) == StartsWith(layout.params[i].name, F)

\* C6: for every integer k >= 1 get_mixed_weibull(k) returns 2k + max(k-1, 0)
\* parameters, with bounds and defaults of that length: 2k shape and scale
\* parameters bounded below by INFINITESIMAL and unbounded above, and k-1
\* fraction parameters bounded by [0, 1].
C6_LayoutSize ==
    (k_op = "get_mixed_weibull" /\ k_arg.type = "int" /\ k_arg.v >= 1) =>
        LET n == 2 * k_arg.v + Max(k_arg.v - 1, 0)
        IN  /\ k_ret.raised = "none"
            /\ Len(k_ret.params) = n
            /\ Len(k_ret.bounds) = n
            /\ Len(k_ret.defaults) = n
            /\ Cardinality({i \in 1..Len(k_ret.params) : ShapeOrScaleAt(k_ret, i)}) = 2 * k_arg.v
            /\ Cardinality({i \in 1..Len(k_ret.params) : FractionAt(k_ret, i)}) = k_arg.v - 1
            /\ \A i \in 1..Len(k_ret.params) :
                  /\ ShapeOrScaleAt(k_ret, i) \/ FractionAt(k_ret, i)
                  /\ ShapeOrScaleAt(k_ret, i) => k_ret.bounds[i] = <<INFINITESIMAL, "None">>
                  /\ FractionAt(k_ret, i) => k_ret.bounds[i] = <<"0", "1">>

C6_Witness ==
    /\ k_op = "get_mixed_weibull"
    /\ k_arg = PyInt(3)
    /\ Len(k_ret.params) = 8
    /\ Len(k_ret.bounds) = 8
    /\ k_ret.bounds[8] = <<"0", "1">>

\* the sum of the entries of args that the layout for ncomp names a fraction
RECURSIVE FractionSum(_, _, _)
FractionSum(layout, args, i) ==
    IF i > Len(layout.params) THEN 0
    ELSE (IF FractionAt(layout, i) THEN args[layout.params[i].location + 1] ELSE 0)
         + FractionSum(layout, args, i + 1)

\* C7: for every k >= 1 the constraint function is 1 minus the sum of exactly the
\* k-1 fraction entries plus INFINITESIMAL; no shape or scale entry contributes,
\* so for k = 1 it is 1 + INFINITESIMAL for every vector.
C7_ConstraintOverFractions ==
    k_op = "constrain" =>
        k_ret = [value |-> Unit - FractionSum(get_mixed_weibull(PyInt(k_arg.ncomp)), k_arg.args, 1),
                 plus |-> INFINITESIMAL]

\* C10: get_mixed_weibull raises TypeError for an ncomp whose type is not int and
\* ValueError for an int <= 0, in both cases before any layout is built, and
\* returns the layout for ncomp, never one for another count, for every int >= 1.
C10_NcompChecked ==
    k_op = "get_mixed_weibull" =>
        /\ k_arg.type # "int" =>
              k_ret.raised = "TypeError" /\ k_ret.steps = <<>> /\ k_ret.params = <<>>
        /\ (k_arg.type = "int" /\ k_arg.v <= 0) =>
              k_ret.raised = "ValueError" /\ k_ret.steps = <<>> /\ k_ret.params = <<>>
        /\ (k_arg.type = "int" /\ k_arg.v >= 1) =>
              /\ k_ret.raised = "none"
              /\ Len(k_ret.params) = 3 * k_arg.v - 1
              /\ k_ret.constrains[1].ncomp = k_arg.v

C10_Witness ==
    /\ k_op = "get_mixed_weibull"
    /\ k_arg = [type |-> "bool", v |-> 1]
    /\ k_ret.raised = "TypeError"
    /\ k_ret.steps = <<>>

\* the k (shape, scale, weight) triples of a fitted vector in layout order: the
\* weight of component i < k is f_i, that of component k is 1 minus the fractions
DecodedInLayoutOrder(k, fitted) ==
    [i \in 1..k |->
        << fitted[2 * i - 1], fitted[2 * i],
           IF i < k THEN fitted[2 * k + i]
           ELSE Unit - SumSeq(SubSeq(fitted, 2 * k + 1, 3 * k - 1)) >>]

\* the triples written back in layout order, the last weight left implicit
ReEncoded(triples) ==
    LET k == Len(triples)
    IN  [i \in 1..(3 * k - 1) |->
            IF i <= 2 * k THEN triples[(i + 1) \div 2][2 - (i % 2)]
            ELSE triples[i - 2 * k][3]]

IsPermutationOf(p, q) ==
    /\ Len(p) = Len(q)
    /\ \A e \in {p[i] : i \in 1..Len(p)} \cup {q[i] : i \in 1..Len(q)} :
          Cardinality({i \in 1..Len(p) : p[i] = e}) = Cardinality({i \in 1..Len(q) : q[i] = e})

\* C11: for every component count k > 1 and every fitted vector, the list
\* process_params returns is a permutation of the k (shape, scale, weight) triples
\* decoded in layout order, and the mixture function evaluated on the sorted
\* triples re-encoded in layout order has, at every x, the value it has on the
\* original fitted vector.
C11_RoundTrip ==
    (k_op = "process_params" /\ k_arg.ncomp > 1) =>
        LET layout == get_mixed_weibull(PyInt(k_arg.ncomp))
        IN  /\ IsPermutationOf(k_ret, DecodedInLayoutOrder(k_arg.ncomp, k_arg.fitted_params))
            /\ MixedFuncValue(layout.mixed_func, ReEncoded(k_ret), ShapeScalePairs)
                 = MixedFuncValue(layout.mixed_func, k_arg.fitted_params, ShapeScalePairs)

\* three components that the sort reorders, with fractions that are not zero
C11_Witness ==
    /\ k_op = "process_params"
    /\ k_arg.ncomp = 3
    /\ k_arg.fitted_params[7] = 1
    /\ k_arg.fitted_params[8] = 1
    /\ k_ret # DecodedInLayoutOrder(3, k_arg.fitted_params)
    /\ ReEncoded(k_ret) # k_arg.fitted_params
    /\ IsPermutationOf(k_ret, DecodedInLayoutOrder(3, k_arg.fitted_params))

\* C12: for every component count k >= 1 process_params returns exactly k
\* entries, each a (shape, scale, weight) triple; component i < k carries the
\* weight f_i and the last component 1 minus the sum of the f_i (1 when k = 1),
\* so the k weights sum to 1.
C12_TriplesSumToOne ==
    k_op = "process_params" =>
        /\ Len(k_ret) = k_arg.ncomp
        /\ \A i \in 1..Len(k_ret) : Len(k_ret[i]) = 3
        /\ IsPermutationOf(k_ret, DecodedInLayoutOrder(k_arg.ncomp, k_arg.fitted_params))
        /\ SumSeq([i \in 1..Len(k_ret) |-> k_ret[i][3]]) = Unit

\* the name of shape_j, scale_j, f_j in the layout for k components
NameOf(prefix, j, k) == IF k = 1 THEN prefix ELSE prefix \o FormatInt(j)

\* the layout parameter whose location is loc
ParamLocatedAt(built, loc) ==
    built.params[CHOOSE i \in 1..Len(built.params) : built.params[i].location = loc]

\* C14: for every integer k >= 1 the locations of the layout are exactly 0..n-1,
\* each once; position i of bounds, of defaults and of the parameters after x of
\* the generated function belong to the parameter located at i; shape_j is at
\* 2(j-1), scale_j at 2(j-1)+1 and f_j at 2k+j-1; and the generated function
\* weights component j < k by f_j and component k by 1 minus the fractions.
C14_LocationsAligned ==
    (k_op = "get_mixed_weibull" /\ k_arg.type = "int" /\ k_arg.v >= 1) =>
        LET k == k_arg.v
            n == Len(k_ret.params)
            names == k_ret.mixed_func.parameter_list
            terms == k_ret.mixed_func.terms
        IN  /\ {k_ret.params[i].location : i \in 1..n} = 0..(n - 1)
            /\ Len(k_ret.bounds) = n /\ Len(k_ret.defaults) = n /\ Len(names) = n + 1
            /\ names[1] = <<"x">>
            /\ \A loc \in 0..(n - 1) :
                  /\ k_ret.bounds[loc + 1] = ParamLocatedAt(k_ret, loc).bounds
                  /\ k_ret.defaults[loc + 1] = ParamLocatedAt(k_ret, loc).default
                  /\ names[loc + 2] = ParamLocatedAt(k_ret, loc).name
            /\ \A j \in 1..k :
                  /\ ParamLocatedAt(k_ret, 2 * (j - 1)).name = NameOf(BETA, j, k)
                  /\ ParamLocatedAt(k_ret, 2 * (j - 1) + 1).name = NameOf(ETA, j, k)
            /\ \A j \in 1..(k - 1) :
                  ParamLocatedAt(k_ret, 2 * k + j - 1).name = NameOf(F, j, k)
            /\ Len(terms) = k
            /\ \A j \in 1..k :
                  /\ terms[j].beta = NameOf(BETA, j, k)
                  /\ terms[j].eta = NameOf(ETA, j, k)
                  /\ j < k => terms[j].weight = <<NameOf(F, j, k)>> /\ terms[j].minus = <<>>
                  /\ j = k => /\ terms[j].weight = <<>>
                              /\ terms[j].minus = [i \in 1..(k - 1) |-> NameOf(F, i, k)]

C14_Witness ==
    /\ k_op = "get_mixed_weibull"
    /\ k_arg = PyInt(3)
    /\ k_ret.params[7].name = <<"f", "1">>
    /\ k_ret.params[7].location = 6
    /\ k_ret.mixed_func.parameter_list[8] = <<"f", "1">>
    /\ k_ret.bounds[7] = <<"0", "1">>
    /\ k_ret.mixed_func.terms[3].minus = << <<"f", "1">>, <<"f", "2">> >>

-----------------------------------------------------------------------------
(* Resolver: properties *)

\* C8: given input that fails validation, feed_data calls on_data_invalid exactly
\* once with the input and the error message, returns with no exception reaching
\* the caller, does not call on_data_fed and leaves real_x, y_data, start_index,
\* end_index, x_to_fit and y_to_fit as they were.
C8_InvalidDataReported ==
    (call.op = "feed_data" /\ validate_data(call.x, call.y).raised = "DataInvalidError") =>
        /\ hooks = <<[hook |-> "on_data_invalid", x |-> call.x, y |-> call.y,
                      message |-> validate_data(call.x, call.y).message]>>
        /\ call.raised = "none"
        /\ Fields = pre

\* x or y is None, or is no ndarray, or the lengths differ, or one holds a NaN
NoneOrNotArrayOrUnequalOrNaN(x, y) ==
    \/ x = None
    \/ y = None
    \/ x.kind # "ndarray"
    \/ y.kind # "ndarray"
    \/ Len(x.data) # Len(y.data)
    \/ AnyNaN(x.data)
    \/ AnyNaN(y.data)

\* C9: validate_data raises DataInvalidError exactly when x or y is None, or is
\* not a numpy ndarray, or their lengths differ, or either contains NaN; for
\* every other input it returns without raising, and it changes no resolver state.
C9_ValidateRaisesExactly ==
    call.op = "validate_data" =>
        /\ call.raised = "DataInvalidError" <=> NoneOrNotArrayOrUnequalOrNaN(call.x, call.y)
        /\ ~NoneOrNotArrayOrUnequalOrNaN(call.x, call.y) => call.raised = "none"
        /\ Fields = pre

\* C13: after any sequence of assignments to Resolver.ncomp, accepted or
\* ignored, mixed_func, bounds, constrains, defaults, params and initial_guess
\* are those of the layout built for the current ncomp: 3 * ncomp - 1 parameters
\* in each of them, and a constraint that closes over the current ncomp; the
\* vector try_fit starts the optimisation from has that many entries too.
C13_LayoutFollowsNcomp ==
    /\ Len(by_ncomp.mixed_func.parameter_list) = 1 + (3 * __ncomp - 1)
    /\ Len(by_ncomp.mixed_func.terms) = __ncomp
    /\ Len(by_ncomp.bounds) = 3 * __ncomp - 1
    /\ Len(by_ncomp.defaults) = 3 * __ncomp - 1
    /\ Len(by_ncomp.params) = 3 * __ncomp - 1
    /\ Len(initial_guess) = 3 * __ncomp - 1
    /\ Len(by_ncomp.constrains) = 1
    /\ by_ncomp.constrains[1].ncomp = __ncomp
    /\ initial_guess = by_ncomp.defaults
    /\ \A i \in 1..Len(initial_guess) : initial_guess[i] \in {<<1, 1>>, <<1, __ncomp>>}
    /\ by_ncomp = refresh_by_ncomp(__ncomp)
    /\ global_x0 # None => global_x0 = by_ncomp.defaults /\ Len(global_x0) = 3 * __ncomp - 1

\* an accepted assignment followed by an ignored one
C13_Witness ==
    /\ __ncomp = 3
    /\ call.op = "ncomp"
    /\ call.x = PyInt(1)
    /\ Len(by_ncomp.params) = 8
    /\ Len(initial_guess) = 8

WindowOfTwoOrMore ==
    /\ x_to_fit # None
    /\ Len(x_to_fit.data) >= 2
    /\ Len(x_to_fit.data) = end_index.v - start_index.v

\* the statistic as reported and its window-local value agree: inside the
\* domain [1, end - start] the interpolated value, NaN only outside of it
ReportedFor(reported, local, partial_real_x) ==
    /\ ~OutOfBounds(local, Len(partial_real_x)) =>
          reported = x_to_real(local, partial_real_x)
    /\ IsNaN(reported) => OutOfBounds(local, Len(partial_real_x))

\* C19: in get_fitted_data (of a Weibull resolver whose window holds two classes
\* or more), for each component, each of mean, median and mode
\* whose window-local value lies inside [1, end - start] is reported as its
\* value interpolated linearly on the real class axis, a statistic is NaN only
\* when its own window-local value lies outside that domain, and no exception
\* reaches the caller.
C19_StatisticsMapped ==
    (call.op = "get_fitted_data" /\ WindowOfTwoOrMore /\ __distribution_type = Weibull) =>
        LET partial_real_x == PySlice(real_x.data, start_index.v, end_index.v)
        IN  /\ call.raised = "none"
            /\ Len(returned) = __ncomp
            /\ \A i \in 1..Len(returned) :
                  /\ ReportedFor(returned[i].mean,
                                 weibull_mean(returned[i].beta, returned[i].eta), partial_real_x)
                  /\ ReportedFor(returned[i].median,
                                 weibull_median(returned[i].beta, returned[i].eta), partial_real_x)
                  /\ ReportedFor(returned[i].mode,
                                 weibull_mode(returned[i].beta, returned[i].eta), partial_real_x)

\* C20: assigning distribution_type a DistributionType member other than Weibull
\* raises NotImplementedError, preprocess_data raises NotImplementedError when
\* the family of the resolver is not Weibull, and no fit is attempted with an
\* unsupported family.
C20_UnsupportedFamilyRejected ==
    /\ ( /\ call.op = "distribution_type"
         /\ call.x.type = "DistributionType"
         /\ call.x.v # Weibull ) => call.raised = "NotImplementedError"
    /\ ( /\ call.op = "feed_data"
         /\ validate_data(call.x, call.y).raised = "none"
         /\ __distribution_type # Weibull ) => call.raised = "NotImplementedError"
    /\ fit_pc \in {"global", "polish"} => __distribution_type = Weibull
    /\ (call.op = "try_fit" /\ fitted_result # None) => __distribution_type = Weibull

\* the last call was a feed_data whose arguments validate_data accepted
FedValid == call.op = "feed_data" /\ validate_data(call.x, call.y).raised = "none"

C23_WindowWellFormed ==
    ( /\ FedValid
      /\ call.raised = "none"
      /\ \E i \in 1..Len(call.y.data) : call.y.data[i] > 0 ) =>
        /\ Len(x_to_fit.data) = Len(y_to_fit.data)
        /\ Len(x_to_fit.data) >= 1
        /\ x_to_fit.data = [i \in 1..Len(y_to_fit.data) |-> i]
        /\ y_to_fit.data = PySlice(y_data.data, start_index.v, end_index.v)

\* C24: a try_fit called right after a feed_data that validate_data rejected, or
\* on a resolver nothing was ever fed to, returns None without starting an
\* optimiser, whatever was fed before.
C24_RejectedSampleNotFitted ==
    [][ ( /\ call'.op = "try_fit"
          /\ \/ call.op = "__init__"
             \/ /\ call.op = "feed_data"
                /\ validate_data(call.x, call.y).raised = "DataInvalidError" ) =>
            ( /\ fit_pc' = "done"
              /\ call'.raised = "none"
              /\ returned' = None
              /\ global_x0' = None ) ]_vars

\* the step is an assignment to ncomp or to distribution_type of a value the
\* setter does not take
IgnoredAssignment ==
    \/ /\ call'.op = "ncomp"
       /\ call'.x.type # "int" \/ call'.x.v <= 1
    \/ /\ call'.op = "distribution_type"
       /\ call'.x.type # "DistributionType"

\* C26: assigning ncomp a value that is no int or an int <= 1, or
\* distribution_type a value that is no DistributionType, raises nothing and
\* leaves ncomp, distribution_type and the layout as they were; and ncomp >= 2
\* in every state of a resolver.
C26_BadAssignmentIgnored ==
    /\ [](__ncomp >= 2)
    /\ [][IgnoredAssignment => (call'.raised = "none" /\ UNCHANGED confVars)]_vars

\* ncomp = 1 assigned to a resolver of three components
C26_Witness ==
    /\ call.op = "ncomp"
    /\ call.x = [type |-> "int", v |-> 1]
    /\ call.raised = "none"
    /\ __ncomp = 3
    /\ by_ncomp = refresh_by_ncomp(3)

\* C27: in every state of a resolver distribution_type names the family whose
\* functions are bound, also after an assignment to distribution_type that
\* raised NotImplementedError.
C27_FamilyMatchesBoundFunctions == bound_funcs = __distribution_type

-----------------------------------------------------------------------------
(* FittingResultViewer: properties *)

\* C30: every completion of a retried task is handled, on_fitting_succeeded
\* raising nothing, and the result of the task replaces the list entry of the
\* sample the retry was issued for, whatever add_result, add_results,
\* remove_results and retry_results did between the retry and the completion.
C30_RetryReplacesItsSample ==
    handled.op = "on_fitting_succeeded" =>
        /\ handled.raised = "none"
        /\ handled.replaced = handled.sample

=============================================================================
